---- MODULE Spec2Model ----
(***************************************************************************)
(* Saudi Projects Intelligence Platform: the extraction / deduplication /  *)
(* scoring pipeline (data_processing/pipeline.py), the rule-based and AI   *)
(* extractors (ai_engine/nlp_engine.py) and the store (database/).         *)
(*                                                                         *)
(* Representation.                                                         *)
(*  - A text is a record of what the extractor's scans find in it: `lex`   *)
(*    is the set of keyword phrases occurring in the lower-cased text, so  *)
(*    `k in text_lower` is Contains(text, k).  Arabic phrases are written  *)
(*    in an ASCII transliteration prefixed "ar:" (legend at the tables).   *)
(*  - A project name is a sequence of words; its characters are given by   *)
(*    Spell, so name[:20], ILIKE '%..%' and len(name) are computed on      *)
(*    characters and the Jaccard similarity on lower-cased words.          *)
(*  - Python None is the string "None"; None and '' are both falsy.        *)
(*  - Scores are integers: reliabilities in 1/100, confidence_score in     *)
(*    1/10000 (0.92 is 9200).                                              *)
(***************************************************************************)
EXTENDS Integers, Sequences, FiniteSets, TLC

(* ----------------------------- bounds ---------------------------------- *)
\* items returned by one scrape_all call
MaxItems == 2

\* pipeline runs started on one DataPipeline instance
MaxRuns == 2

\* store / extractor calls that raise during one behaviour
MaxFaults == 1

\* Items scraped over all the runs of a behaviour.
MaxScraped == 2

\* the largest source_count given to calculate_confidence_score
MaxSources == 7

\* the largest `retries` given to fetch_page
MaxRetries == 5

\* the largest error_count a scraper has when fetch_page is called
MaxErrors == 2

(* ------------------------- generic helpers ----------------------------- *)
None == "None"

Falsy(v) == v = None \/ v = ""

Truthy(v) == ~Falsy(v)

Min(a, b) == IF a <= b THEN a ELSE b

Max(a, b) == IF a >= b THEN a ELSE b

\* max(values, default=d)
SetMax(S, d) == IF S = {} THEN d ELSE CHOOSE y \in S : \A z \in S : z <= y

(* ------------- config.py / nlp_engine.py keyword tables ---------------- *)
\* Transliteration legend:
\*   "ar:tm AlAnthAC" is تم الانتهاء
\*   "ar:Aktml" is اكتمل
\*   "ar:AfttH" is افتتح
\*   "ar:tm AfttAH" is تم افتتاح
\*   "ar:tm tdcyn" is تم تدشين
\*   "ar:tslym" is تسليم
\*   "ar:tm Altslym" is تم التسليم
\*   "ar:AnthY" is انتهى
\*   "ar:Aktmlt" is اكتملت
\*   "ar:tm AlInjAz" is تم الإنجاز
\*   "ar:Olgy" is ألغي
\*   "ar:twqf" is توقف
\*   "ar:tElyq" is تعليق
\*   "ar:IyqAf" is إيقاف
\*   "ar:tHt AltnfyV" is تحت التنفيذ
\*   "ar:qyd AltnfyV" is قيد التنفيذ
\*   "ar:bdC AltnfyV" is بدء التنفيذ
\*   "ar:bdO AltnfyV" is بدأ التنفيذ
\*   "ar:bdO AlbnAC" is بدأ البناء
\*   "ar:jAry AltnfyV" is جاري التنفيذ
\*   "ar:trsyp" is ترسية
\*   "ar:trsyp AlEqd" is ترسية العقد
\*   "ar:tmt Altrsyp" is تمت الترسية
\*   "ar:twqyE Eqd" is توقيع عقد
\*   "ar:wDE Hjr AlOsAs" is وضع حجر الأساس
\*   "ar:ncT" is نشط
\*   "ar:qyd AlIncAC" is قيد الإنشاء
\*   "ar:qyd AlAncAC" is قيد الانشاء
\*   "ar:tHt AlIncAC" is تحت الإنشاء
\*   "ar:tHt AlAncAC" is تحت الانشاء
\*   "ar:bdC AlOEmAl" is بدء الأعمال
\*   "ar:bdOt AlOEmAl" is بدأت الأعمال
\*   "ar:mktml" is مكتمل
\*   "ar:mnjz" is منجز
\*   "ar:mlgy" is ملغي
\*   "ar:mtwqf" is متوقف
\*   "ar:AlgAC" is الغاء
\*   "ar:mElq" is معلق
\*   "ar:tm IyqAf" is تم إيقاف
\*   "ar:jAry" is جاري

completed_keywords_en ==
  {
    "completed", "finished", "delivered", "inaugurated", "opened", "commissioned",
    "handover", "handed over", "has been delivered", "was completed", "was opened"
  }

completed_keywords_ar ==
  {
    "ar:tm AlAnthAC", "ar:Aktml", "ar:AfttH", "ar:tm AfttAH", "ar:tm tdcyn", "ar:tslym",
    "ar:tm Altslym", "ar:AnthY", "ar:Aktmlt", "ar:tm AlInjAz"
  }

cancelled_keywords_en ==
  {
    "cancelled", "canceled", "suspended", "halted", "stopped", "postponed"
  }

cancelled_keywords_ar ==
  {
    "ar:Olgy", "ar:twqf", "ar:tElyq", "ar:IyqAf"
  }

active_indicators_en ==
  {
    "under construction", "construction began", "construction started", "awarded",
    "contract awarded", "contract signed", "starts construction", "groundbreaking",
    "commencement", "commence", "commenced", "ongoing", "in progress", "being built"
  }

active_indicators_ar ==
  {
    "ar:tHt AltnfyV", "ar:qyd AltnfyV", "ar:bdC AltnfyV", "ar:bdO AltnfyV",
    "ar:bdO AlbnAC", "ar:jAry AltnfyV", "ar:trsyp", "ar:trsyp AlEqd", "ar:tmt Altrsyp",
    "ar:twqyE Eqd", "ar:wDE Hjr AlOsAs"
  }

ACTIVE_KEYWORDS ==
  <<
    "active", "ongoing", "under construction", "in progress", "construction started",
    "construction began", "work began", "work begins", "started", "starts",
    "groundbreaking", "site work", "mobilization", "awarded", "contract awarded",
    "contract signed", "commencement", "commence", "commenced", "ar:ncT", "ar:qyd AlIncAC",
    "ar:qyd AlAncAC", "ar:tHt AlIncAC", "ar:tHt AlAncAC", "ar:qyd AltnfyV",
    "ar:tHt AltnfyV", "ar:jAry AltnfyV", "ar:bdC AltnfyV", "ar:bdO AltnfyV",
    "ar:bdC AlOEmAl", "ar:bdOt AlOEmAl", "ar:trsyp", "ar:trsyp AlEqd", "ar:tmt Altrsyp",
    "ar:twqyE Eqd", "ar:wDE Hjr AlOsAs"
  >>

COMPLETED_KEYWORDS ==
  {
    "completed", "finished", "delivered", "inaugurated", "ar:mktml", "ar:mnjz"
  }

CANCELLED_KEYWORDS ==
  {
    "cancelled", "suspended", "halted", "stopped", "ar:mlgy", "ar:mtwqf"
  }

completed_markers_ar ==
  {
    "ar:tm AlAnthAC", "ar:Aktml", "ar:AfttH", "ar:tm AfttAH", "ar:tm Altslym", "ar:mktml",
    "ar:mnjz"
  }

cancelled_markers_ar ==
  {
    "ar:Olgy", "ar:AlgAC", "ar:twqf", "ar:mtwqf", "ar:mElq", "ar:tm IyqAf"
  }

under_construction_markers ==
  {
    "under construction", "construction started", "construction began", "groundbreaking"
  }

ongoing_markers ==
  {
    "ongoing", "in progress", "progress", "phase"
  }

under_construction_markers_ar ==
  {
    "ar:qyd AlIncAC", "ar:qyd AlAncAC", "ar:tHt AlIncAC", "ar:tHt AlAncAC",
    "ar:wDE Hjr AlOsAs", "ar:bdOt AlOEmAl", "ar:bdC AlOEmAl", "ar:bdO AltnfyV",
    "ar:bdC AltnfyV"
  }

ongoing_markers_ar ==
  {
    "ar:jAry", "ar:qyd AltnfyV", "ar:tHt AltnfyV", "ar:jAry AltnfyV"
  }

SubstringPairs ==
  {
    <<"completed", "was completed">>, <<"delivered", "has been delivered">>,
    <<"opened", "was opened">>, <<"ar:Aktml", "ar:Aktmlt">>,
    <<"ar:tslym", "ar:tm Altslym">>, <<"ar:twqf", "ar:mtwqf">>,
    <<"ar:IyqAf", "ar:tm IyqAf">>, <<"awarded", "contract awarded">>,
    <<"commence", "commencement">>, <<"commence", "commenced">>,
    <<"ar:trsyp", "ar:trsyp AlEqd">>, <<"ar:trsyp", "ar:tmt Altrsyp">>,
    <<"started", "construction started">>, <<"starts", "starts construction">>,
    <<"progress", "in progress">>, <<"ar:jAry", "ar:jAry AltnfyV">>
  }

\* `kw in text_lower`: the phrase occurs in the text, as itself or inside a
\* longer phrase of the text (SubstringPairs lists the phrases of the tables
\* that are substrings of one another).
Contains(text, kw) ==
  \E l \in text.lex : l = kw \/ <<kw, l>> \in SubstringPairs

ContainsAny(text, kws) == \E kw \in kws : Contains(text, kw)

SAUDI_REGIONS ==
  <<"Riyadh", "Makkah", "Madinah", "Eastern Province", "Asir", "Tabuk", "Qassim",
    "Ha'il", "Northern Borders", "Jazan", "Najran", "Al-Bahah", "Al-Jawf">>

\* CONFIDENCE_THRESHOLD = float(os.getenv("CONFIDENCE_THRESHOLD", "0.7")), in
\* 1/100: the default.
CONFIDENCE_THRESHOLD == 70

\* A value the environment may give instead.
LowerThreshold == 60

\* The values config.CONFIDENCE_THRESHOLD may have when the pipeline starts.
Thresholds == {CONFIDENCE_THRESHOLD, LowerThreshold}

\* get_source_reliability: the first domain of SOURCE_RELIABILITY occurring in
\* the URL, in 1/100; a URL is modelled by the table domain it contains.
SOURCE_RELIABILITY ==
  [d \in {"spa.gov.sa", "meed.com", "arabnews.com", "sabq.org"} |->
     CASE d = "spa.gov.sa" -> 100
       [] d = "meed.com" -> 90
       [] d = "arabnews.com" -> 85
       [] d = "sabq.org" -> 80]

DefaultReliability == 50

get_source_reliability(url) ==
  IF url.domain \in DOMAIN SOURCE_RELIABILITY
    THEN SOURCE_RELIABILITY[url.domain]
    ELSE DefaultReliability

(* --------------------------- strings ----------------------------------- *)
\* The characters of the words used in project names.
Spell(w) ==
  CASE w = "King" -> <<"K", "i", "n", "g">>
    [] w = "Salman" -> <<"S", "a", "l", "m", "a", "n">>
    [] w = "Park" -> <<"P", "a", "r", "k">>
    [] w = "Phase" -> <<"P", "h", "a", "s", "e">>
    [] w = "1" -> <<"1">>
    [] w = "2" -> <<"2">>
    [] w = "Project" -> <<"P", "r", "o", "j", "e", "c", "t">>
    [] w = "One" -> <<"O", "n", "e">>
    [] w = "NEOM" -> <<"N", "E", "O", "M">>
    [] w = "announces" -> <<"a", "n", "n", "o", "u", "n", "c", "e", "s">>
    [] w = "The" -> <<"T", "h", "e">>
    [] w = "Line" -> <<"L", "i", "n", "e">>
    [] w = "project" -> <<"p", "r", "o", "j", "e", "c", "t">>
    [] w = "under" -> <<"u", "n", "d", "e", "r">>
    [] w = "construction" -> <<"c", "o", "n", "s", "t", "r", "u", "c", "t", "i", "o", "n">>
    [] w = "in" -> <<"i", "n">>
    [] w = "Tabuk," -> <<"T", "a", "b", "u", "k", ",">>
    [] w = "awarded" -> <<"a", "w", "a", "r", "d", "e", "d">>
    [] w = "to" -> <<"t", "o">>
    [] w = "ACME" -> <<"A", "C", "M", "E">>
    [] w = "Contracting" -> <<"C", "o", "n", "t", "r", "a", "c", "t", "i", "n", "g">>
    [] w = "Group" -> <<"G", "r", "o", "u", "p">>
    [] w = "Riyadh" -> <<"R", "i", "y", "a", "d", "h">>
    [] w = "Metro" -> <<"M", "e", "t", "r", "o">>
    [] w = "has" -> <<"h", "a", "s">>
    [] w = "been" -> <<"b", "e", "e", "n">>
    [] w = "completed" -> <<"c", "o", "m", "p", "l", "e", "t", "e", "d">>
    [] w = "and" -> <<"a", "n", "d">>
    [] w = "inaugurated" -> <<"i", "n", "a", "u", "g", "u", "r", "a", "t", "e", "d">>

\* str.lower() on one character (ASCII letters; every other character maps
\* to itself).
LowerChar(c) ==
  CASE c = "A" -> "a" [] c = "B" -> "b" [] c = "C" -> "c" [] c = "D" -> "d"
    [] c = "E" -> "e" [] c = "F" -> "f" [] c = "G" -> "g" [] c = "H" -> "h"
    [] c = "I" -> "i" [] c = "J" -> "j" [] c = "K" -> "k" [] c = "L" -> "l"
    [] c = "M" -> "m" [] c = "N" -> "n" [] c = "O" -> "o" [] c = "P" -> "p"
    [] c = "Q" -> "q" [] c = "R" -> "r" [] c = "S" -> "s" [] c = "T" -> "t"
    [] c = "U" -> "u" [] c = "V" -> "v" [] c = "W" -> "w" [] c = "X" -> "x"
    [] c = "Y" -> "y" [] c = "Z" -> "z"
    [] OTHER -> c

RECURSIVE Chars(_)
\* The string of a name: its words joined by single spaces.
Chars(name) ==
  IF name = <<>> THEN <<>>
  ELSE IF Len(name) = 1 THEN Spell(name[1])
  ELSE Spell(name[1]) \o <<" ">> \o Chars(Tail(name))

Lower(s) == [i \in 1..Len(s) |-> LowerChar(s[i])]

\* s[:n]
Prefix(s, n) == SubSeq(s, 1, Min(n, Len(s)))

\* p in s
IsSubstr(p, s) ==
  \E i \in 0..(Len(s) - Len(p)) : SubSeq(s, i + 1, i + Len(p)) = p

\* value ILIKE '%' || pattern || '%'
ilike(value, pattern) == IsSubstr(Lower(pattern), Lower(value))

\* set(name.lower().split())
WordSet(name) == {Lower(Spell(name[i])) : i \in DOMAIN name}

(* ------------------- ai_engine/nlp_engine.py --------------------------- *)
\* "No record": the extractor returned None.
NoData == [rejected |-> TRUE]

\* First entry of an ordered table (a sequence) that belongs to `hits`, else d.
FirstOf(table, hits, d) ==
  IF \E i \in DOMAIN table : table[i] \in hits
    THEN table[CHOOSE i \in DOMAIN table :
                 table[i] \in hits /\ \A j \in 1..(i - 1) : table[j] \notin hits]
    ELSE d

\* The name found by the regex cascade, else the first sentence cut to 100
\* characters: `text.name` is that string.
_extract_project_name(text) == text.name

\* A variant of the classification that looks for the ongoing markers before
\* the under-construction markers.
classify_ongoing_first(text) ==
  IF ContainsAny(text, COMPLETED_KEYWORDS) \/ ContainsAny(text, completed_markers_ar)
    THEN "Completed"
  ELSE IF ContainsAny(text, CANCELLED_KEYWORDS) \/ ContainsAny(text, cancelled_markers_ar)
    THEN "Cancelled"
  ELSE IF ContainsAny(text, ongoing_markers) \/ ContainsAny(text, ongoing_markers_ar)
    THEN "Ongoing"
  ELSE IF ContainsAny(text, under_construction_markers)
          \/ ContainsAny(text, under_construction_markers_ar)
    THEN "Under Construction"
  ELSE IF \E i \in DOMAIN ACTIVE_KEYWORDS : Contains(text, ACTIVE_KEYWORDS[i])
    THEN "Active"
  ELSE "Announced"

_classify_status(text) ==
  IF ContainsAny(text, COMPLETED_KEYWORDS) \/ ContainsAny(text, completed_markers_ar)
    THEN "Completed"
  ELSE IF ContainsAny(text, CANCELLED_KEYWORDS) \/ ContainsAny(text, cancelled_markers_ar)
    THEN "Cancelled"
  ELSE IF ContainsAny(text, under_construction_markers)
          \/ ContainsAny(text, under_construction_markers_ar)
    THEN "Under Construction"
  ELSE IF ContainsAny(text, ongoing_markers) \/ ContainsAny(text, ongoing_markers_ar)
    THEN "Ongoing"
  ELSE IF \E i \in DOMAIN ACTIVE_KEYWORDS : Contains(text, ACTIVE_KEYWORDS[i])
    THEN "Active"
  ELSE "Announced"

\* `text.regions`: the gazetteer regions whose lower-cased name occurs in the
\* text; the first in gazetteer order is returned.
_extract_region(text) == FirstOf(SAUDI_REGIONS, text.regions, None)

\* `text.city`: the first city of the fixed list occurring in the text.
_extract_city(text) == text.city

CategoryOrder ==
  <<"Residential", "Commercial", "Infrastructure", "Industrial", "Mega Project",
    "Healthcare", "Education", "Transportation", "Energy", "Tourism">>

\* `text.categories`: the categories one of whose keywords occurs in the text.
_classify_category(text) == FirstOf(CategoryOrder, text.categories, "Commercial")

\* `text.entity[kind]`: what the label pattern "<type>[:\s]+(...)" captures for
\* the first entity type of `kind` (owner, contractor, consultant), and
\* `text.by`: what the pattern "by\s+(...)" captures; None when the pattern
\* finds nothing.  The label of the first type is tried before "by", which is
\* the same for every kind.  (The texts of the model use no other label.)
_extract_entity(text, kind) ==
  IF text.entity[kind] # None THEN text.entity[kind] ELSE text.by

\* len(name): characters
StrLen(name) == Len(Chars(name))

\* A variant of the validation that does not require the region.
accept_without_region(project_info) ==
  IF project_info.project_name = <<>> \/ StrLen(project_info.project_name) < 10
    THEN NoData
  ELSE project_info

\* _extract_with_rules, lines 223-232: the name and the region are mandatory.
RulesAccept(project_info) ==
  IF project_info.project_name = <<>> \/ StrLen(project_info.project_name) < 10
    THEN NoData
  ELSE IF Falsy(project_info.region) THEN NoData
  ELSE project_info

\* _extract_with_rules, lines 208-221: the extracted fields.  The record has
\* no start_date and no project_value key: reading them gives None.
project_info_of(text, source_url) ==
  [project_name |-> _extract_project_name(text),
   status |-> _classify_status(text),
   region |-> _extract_region(text),
   city |-> _extract_city(text),
   category |-> _classify_category(text),
   project_owner |-> _extract_entity(text, "owner"),
   main_contractor |-> _extract_entity(text, "contractor"),
   consultant |-> _extract_entity(text, "consultant"),
   description |-> "text[:350]",
   start_date |-> None,
   project_value |-> None,
   source_url |-> source_url,
   extracted_by |-> "rules"]

\* has_active_indicator, line 202
has_active_indicator(text) ==
  \/ ContainsAny(text, active_indicators_en \cup active_indicators_ar)
  \/ \E i \in DOMAIN ACTIVE_KEYWORDS : Contains(text, ACTIVE_KEYWORDS[i])

\* A variant of the extractor in which an active indicator is looked for
\* first and settles the matter.
rules_active_first(text, source_url) ==
  IF has_active_indicator(text) THEN RulesAccept(project_info_of(text, source_url))
  ELSE NoData

_extract_with_rules(text, source_url) ==
  IF ContainsAny(text, completed_keywords_en \cup completed_keywords_ar
                       \cup COMPLETED_KEYWORDS)
    THEN NoData
  ELSE IF ContainsAny(text, cancelled_keywords_en \cup cancelled_keywords_ar
                            \cup CANCELLED_KEYWORDS)
    THEN NoData
  ELSE IF ~has_active_indicator(text) THEN NoData
  ELSE RulesAccept(project_info_of(text, source_url))

valid_statuses == {"Active", "Ongoing", "Under Construction", "Planning", "Announced"}

\* A variant of the AI path without the fallback: an error gives no record.
ai_without_fallback(text, source_url, reply) ==
  IF reply.kind = "error" THEN NoData
  ELSE IF reply.rejected THEN NoData
  ELSE IF reply.data.project_name = <<>> \/ Falsy(reply.data.region) THEN NoData
  ELSE IF reply.data.status \notin valid_statuses THEN NoData
  ELSE [reply.data EXCEPT !.source_url = source_url, !.extracted_by = "ai"]

\* A variant of the AI path that does not validate the status.
ai_any_status(text, source_url, reply) ==
  IF reply.kind = "error" THEN _extract_with_rules(text, source_url)
  ELSE IF reply.rejected THEN NoData
  ELSE IF reply.data.project_name = <<>> \/ Falsy(reply.data.region) THEN NoData
  ELSE [reply.data EXCEPT !.source_url = source_url, !.extracted_by = "ai"]

\* `reply` is what the completion call produced: kind "error" when the call
\* raised (service error, timeout) or the reply is not a JSON object, else
\* the parsed object (a field given as null is None).
_extract_with_ai(text, source_url, reply) ==
  IF reply.kind = "error" THEN _extract_with_rules(text, source_url)
  ELSE IF reply.rejected THEN NoData
  ELSE IF reply.data.project_name = <<>> \/ Falsy(reply.data.region) THEN NoData
  ELSE IF reply.data.status \notin valid_statuses THEN NoData
  ELSE [reply.data EXCEPT !.source_url = source_url, !.extracted_by = "ai"]

\* `ai.client`: self.openai_client is set.
extract_project_info(text, source_url, ai) ==
  IF ai.client THEN _extract_with_ai(text, source_url, ai.reply)
  ELSE _extract_with_rules(text, source_url)

\* bool(project_data.get(f)) for a name (a sequence) or a string field
Filled(pd, f) == IF f = "project_name" THEN pd[f] # <<>> ELSE Truthy(pd[f])

required_fields == {"project_name", "status", "region", "category"}

optional_fields ==
  {"project_owner", "main_contractor", "city", "description", "start_date",
   "project_value"}

\* round(x / 10000, 2) in 1/100, x in 1/10000; an exact half goes to the even
\* neighbour.
Round2(x) ==
  LET q == x \div 100
      r == x % 100
  IN IF r > 50 \/ (r = 50 /\ q % 2 = 1) THEN q + 1 ELSE q

\* A variant of the score whose source-count signal is source_count / 5,
\* without the cap.
score_uncapped(project_data, source_count) ==
  LET filled_required == Cardinality({f \in required_fields : Filled(project_data, f)})
      filled_optional == Cardinality({f \in optional_fields : Filled(project_data, f)})
  IN Round2(600 * source_count + 525 * filled_required
            + 150 * filled_optional
            + 20 * get_source_reliability(project_data.source_url) + 1600)

\* In 1/100.  Weights 0.3, 0.3, 0.2, 0.2 of CONFIDENCE_WEIGHTS; in 1/10000:
\*   0.3 * min(n/5, 1)             = 600 * min(n, 5)
\*   0.3 * (0.7 * req/4)           = 525 * req
\*   0.3 * (0.3 * opt/6)           = 150 * opt
\*   0.2 * reliability (in 1/100)  = 20 * reliability
\*   0.2 * 0.8                     = 1600
calculate_confidence_score(project_data, source_count) ==
  LET filled_required == Cardinality({f \in required_fields : Filled(project_data, f)})
      filled_optional == Cardinality({f \in optional_fields : Filled(project_data, f)})
  IN Round2(600 * Min(source_count, 5) + 525 * filled_required
            + 150 * filled_optional
            + 20 * get_source_reliability(project_data.source_url) + 1600)

\* len(words1 & words2) / len(words1 | words2) as the pair
\* <<|intersection|, |union|>>; <<0, 1>> (0.0) when a word set is empty.
Jaccard(words1, words2) ==
  IF words1 = {} \/ words2 = {} THEN <<0, 1>>
  ELSE <<Cardinality(words1 \cap words2), Cardinality(words1 \cup words2)>>

\* Jaccard similarity of the lower-cased word sets.
_simple_similarity(name1, name2) == Jaccard(WordSet(name1), WordSet(name2))

\* self.embedding_model is None (sentence-transformers is left out of the
\* deployment: "disabled for cloud"), so calculate_similarity is
\* _simple_similarity.
calculate_similarity(name1, name2) == _simple_similarity(name1, name2)

\* name_similarity > 0.85
OverThreshold(s) == 100 * s[1] > 85 * s[2]

\* name_similarity > 0.85 and equal regions
is_duplicate(project1, project2) ==
  /\ OverThreshold(calculate_similarity(project1.project_name, project2.project_name))
  /\ project1.region = project2.region

(* ---------------- database/models.py, db_manager.py -------------------- *)
\* The store: the projects and sources tables, a row's id being its index
\* (autoincrement, rows are never deleted).  Columns no pipeline step reads
\* are left out.
EmptyDb == [projects |-> <<>>, sources |-> <<>>]

\* Project(**project_data): the column defaults of models.py
ProjectRow(data) ==
  [project_name |-> data.project_name,
   status |-> data.status,
   project_owner |-> data.project_owner,
   main_contractor |-> data.main_contractor,
   consultant |-> data.consultant,
   region |-> data.region,
   city |-> data.city,
   category |-> data.category,
   description |-> data.description,
   project_value |-> data.project_value,
   start_date |-> None,
   confidence_score |-> data.confidence_score,
   is_verified |-> FALSE,
   update_count |-> 0]

\* nullable=False columns: the insert raises IntegrityError on None.
NotNullViolated(data) ==
  data.project_name = <<>> \/ data.status = None \/ data.region = None
    \/ data.category = None

\* add_project: the new row's id is Len(projects) + 1.
add_project(db, data) == [db EXCEPT !.projects = Append(@, ProjectRow(data))]

get_project_by_id(db, project_id) == db.projects[project_id]

\* update_project: set the given columns, bump update_count (and last_updated).
update_project(db, project_id, updates) ==
  [db EXCEPT !.projects[project_id] =
     [k \in DOMAIN @ |->
        IF k = "update_count" THEN @[k] + 1
        ELSE IF k \in DOMAIN updates THEN updates[k]
        ELSE @[k]]]

\* start_date is a DateTime column and the value offered for it is the string
\* of the extracted record: on the SQLite engine of DATABASE_URL's default the
\* flush raises (the type accepts datetime objects only) and the session is
\* rolled back.
update_raises(updates) == "start_date" \in DOMAIN updates

\* find_similar_projects: the ids, in table order, of the rows whose name
\* ILIKE '%' || project_name[:20] || '%'.
find_similar_projects(db, project_name) ==
  LET pat == Prefix(Chars(project_name), 20)
      hit(i) == ilike(Chars(db.projects[i].project_name), pat)
      Sel[i \in 0..Len(db.projects)] ==
        IF i = 0 THEN <<>>
        ELSE IF hit(i) THEN Append(Sel[i - 1], i) ELSE Sel[i - 1]
  IN Sel[Len(db.projects)]

\* add_source: one more row, whatever rows exist already.
add_source(db, project_id, source_data) ==
  [db EXCEPT !.sources =
     Append(@, [project_id |-> project_id,
                source_url |-> source_data.source_url,
                reliability_score |-> source_data.reliability_score])]

\* get_project_sources: the rows of the project (as a set of row indexes).
get_project_sources(db, project_id) ==
  {i \in DOMAIN db.sources : db.sources[i].project_id = project_id}

(* ------------------- data_processing/pipeline.py ----------------------- *)
\* A scraped item: `keys` are the text keys the scraper filled, all of them
\* with `content`; item.get(key, default) is ItemGet.
ItemGet(item, key, default) == IF key \in item.keys THEN item.content ELSE default

\* The text ''.
EmptyText ==
  [blank |-> TRUE, lex |-> {}, name |-> <<>>, regions |-> {}, city |-> None,
   categories |-> {},
   entity |-> [owner |-> None, contractor |-> None, consultant |-> None],
   by |-> None]

\* The calls that can raise while one item is handled; `f` names the one that
\* does ("none": no call raises).
FaultSites ==
  {"extract", "find_similar", "add_project", "add_source", "add_update_log",
   "get_project_by_id", "update_project", "add_source_upd", "add_source2",
   "get_project_sources", "update_project_conf"}

ZeroCounters ==
  [scraped_count |-> 0, processed_count |-> 0, added_count |-> 0,
   updated_count |-> 0, rejected_count |-> 0, error_count |-> 0]

Bump(ctr, c) == [ctr EXCEPT ![c] = @ + 1]

\* _add_new_project: id 0 stands for the None it returns when a call raised.
_add_new_project(db, project_data, source_url, f) ==
  IF f = "add_project" \/ NotNullViolated(project_data)
    THEN [db |-> db, id |-> 0, fired |-> f = "add_project"]
  ELSE
    LET db1 == add_project(db, project_data)
        project_id == Len(db1.projects)
        db2 == add_source(db1, project_id,
                          [source_url |-> source_url,
                           reliability_score |-> get_source_reliability(source_url)])
    IN IF f = "add_source" THEN [db |-> db1, id |-> 0, fired |-> TRUE]
       ELSE IF f = "add_update_log" THEN [db |-> db2, id |-> 0, fired |-> TRUE]
       ELSE [db |-> db2, id |-> project_id, fired |-> FALSE]

fields_to_check ==
  {"project_owner", "main_contractor", "consultant", "city", "description",
   "project_value", "start_date"}

\* A variant of the merge that writes every non-empty field of the new record.
update_overwriting(db, project_id, new_data, source_url, f) ==
  IF f = "get_project_by_id" THEN [db |-> db, fired |-> TRUE]
  ELSE
    LET fields == {fld \in fields_to_check : Truthy(new_data[fld])}
        updates == [fld \in fields |-> new_data[fld]]
        db1 == update_project(db, project_id, updates)
    IN IF fields = {} THEN [db |-> db, fired |-> FALSE]
       ELSE IF f = "update_project" THEN [db |-> db, fired |-> TRUE]
       ELSE IF update_raises(updates) THEN [db |-> db, fired |-> FALSE]
       ELSE IF f = "add_source_upd" THEN [db |-> db1, fired |-> TRUE]
       ELSE [db |-> add_source(db1, project_id,
                               [source_url |-> source_url, reliability_score |-> 50]),
             fired |-> FALSE]

\* _update_existing_project: every exception is logged and swallowed.
_update_existing_project(db, project_id, new_data, source_url, f) ==
  IF f = "get_project_by_id" THEN [db |-> db, fired |-> TRUE]
  ELSE
    LET existing == get_project_by_id(db, project_id)
        fields == {fld \in fields_to_check :
                     Falsy(existing[fld]) /\ Truthy(new_data[fld])}
        updates == [fld \in fields |-> new_data[fld]]
        db1 == update_project(db, project_id, updates)
    IN IF fields = {} THEN [db |-> db, fired |-> FALSE]
       ELSE IF f = "update_project" THEN [db |-> db, fired |-> TRUE]
       ELSE IF update_raises(updates) THEN [db |-> db, fired |-> FALSE]
       ELSE IF f = "add_source_upd" THEN [db |-> db1, fired |-> TRUE]
       ELSE [db |-> add_source(db1, project_id,
                               [source_url |-> source_url, reliability_score |-> 50]),
             fired |-> FALSE]

\* The confidence band of _recompute_confidence: <<confidence, verified>> from
\* the reliabilities of the project's source rows and the official_source
\* flag of the item being handled.
confidence_band(reliabilities, source_count, official_source) ==
  LET max_rel == SetMax(reliabilities, 50)
      any_official == official_source \/ max_rel >= 99
  IN IF any_official THEN <<9200, TRUE>>
     ELSE IF source_count >= 2 THEN <<7800, TRUE>>
     ELSE <<6200, FALSE>>

\* _recompute_confidence: every exception is logged and swallowed.
_recompute_confidence(db, project_id, official_source, f) ==
  IF f = "get_project_sources" THEN [db |-> db, fired |-> TRUE]
  ELSE
    LET sources == get_project_sources(db, project_id)
        band == confidence_band({db.sources[i].reliability_score : i \in sources},
                                Cardinality(sources), official_source)
    IN IF f = "update_project_conf" THEN [db |-> db, fired |-> TRUE]
       ELSE [db |-> update_project(db, project_id,
                                   [confidence_score |-> band[1],
                                    is_verified |-> band[2]]),
             fired |-> FALSE]

\* The first entry of the sequence `ids` whose index is in `hits`, else 0.
FirstHit(ids, hits) ==
  IF hits = {} THEN 0
  ELSE ids[CHOOSE k \in hits : \A j \in hits : k <= j]

\* _process_item, lines 351-360: the first of existing_projects that
\* is_duplicate of project_data, else 0.
FirstDuplicate(db, project_data, existing_projects) ==
  FirstHit(existing_projects,
           {k \in DOMAIN existing_projects :
              is_duplicate(project_data, db.projects[existing_projects[k]])})

\* What handling one item gives: the store, the counters, the project id (0
\* for None), `how`: the branch taken, `fired`: the call named by f raised.
Result(d, c, id, how, fired) ==
  [db |-> d, ctr |-> c, id |-> id, how |-> how, fired |-> fired]

\* project_data['confidence_score'] = confidence
WithConfidence(project_data, confidence) ==
  [k \in DOMAIN project_data \cup {"confidence_score"} |->
     IF k = "confidence_score" THEN confidence ELSE project_data[k]]

\* _process_item, lines 356-360: u is what _update_existing_project did.
BatchUpdated(ctr, existing, u) ==
  Result(u.db, Bump(ctr, "updated_count"), existing, "updated", u.fired)

\* _process_item, lines 376-381: a is what _add_new_project did; a None id is
\* counted nowhere.
BatchAdded(ctr, a) ==
  IF a.id # 0 THEN Result(a.db, Bump(ctr, "added_count"), a.id, "added", a.fired)
  ELSE Result(a.db, ctr, 0, "not_saved", a.fired)

\* _process_item, lines 366-385: no duplicate; confidence and threshold (the
\* module's CONFIDENCE_THRESHOLD) in 1/100.
BatchScored(db, ctr, project_data, confidence, source_url, threshold, f) ==
  IF confidence >= threshold
    THEN BatchAdded(ctr, _add_new_project(db, WithConfidence(project_data, 100 * confidence),
                                          source_url, f))
  ELSE Result(db, Bump(ctr, "rejected_count"), 0, "low_confidence", FALSE)

\* _process_item, lines 351-385: existing is the duplicate found, or 0.
BatchDecide(db, ctr, project_data, existing, source_url, threshold, f) ==
  IF existing # 0
    THEN BatchUpdated(ctr, existing,
                      _update_existing_project(db, existing, project_data, source_url, f))
  ELSE BatchScored(db, ctr, project_data, calculate_confidence_score(project_data, 1),
                   source_url, threshold, f)

\* _process_item, lines 342-385: project_data is what the extractor returned.
BatchExtracted(db, ctr, project_data, source_url, threshold, f) ==
  IF project_data = NoData
    THEN Result(db, Bump(ctr, "rejected_count"), 0, "rejected", FALSE)
  ELSE IF f = "find_similar"
    THEN Result(db, Bump(Bump(ctr, "processed_count"), "error_count"), 0,
                "exception", TRUE)
  ELSE BatchDecide(db, Bump(ctr, "processed_count"), project_data,
                   FirstDuplicate(db, project_data,
                                  find_similar_projects(db, project_data.project_name)),
                   source_url, threshold, f)

\* item.get('raw_text', item.get('description', ''))
BatchText(item) == ItemGet(item, "raw_text", ItemGet(item, "description", EmptyText))

\* _process_item (batch): an item without text is skipped and counted nowhere.
_process_item(db, ctr, item, ai, threshold, f) ==
  IF BatchText(item).blank THEN Result(db, ctr, 0, "no_text", FALSE)
  ELSE IF f = "extract" THEN Result(db, Bump(ctr, "error_count"), 0, "exception", TRUE)
  ELSE BatchExtracted(db, ctr, extract_project_info(BatchText(item), item.url, ai),
                      item.url, threshold, f)

active_statuses == {"Active", "Ongoing", "Under Construction"}

\* float(item.get('reliability_score') or get_source_reliability(source_url));
\* 0 stands for an absent, None or zero reliability_score.
ItemReliability(item) ==
  IF item.reliability_score # 0 THEN item.reliability_score
  ELSE get_source_reliability(item.url)

\* max(0, min(1, confidence * 0.7 + reliability_score * 0.3)), in 1/10000 from
\* confidence and reliability_score in 1/100
base_confidence(confidence, reliability_score) ==
  Max(0, Min(10000, 70 * confidence + 30 * reliability_score))

\* lines 225-235: the score and the defaults of region and category
Scored(project_data, confidence) ==
  [k \in DOMAIN project_data \cup {"confidence_score"} |->
     IF k = "confidence_score" THEN confidence
     ELSE IF k = "region" /\ Falsy(project_data[k]) THEN "Unknown"
     ELSE IF k = "category" /\ Falsy(project_data[k]) THEN "Infrastructure"
     ELSE project_data[k]]

\* What the first half of _process_item_with_return gives: go = TRUE when
\* project_data goes on to the duplicate lookup.
Extracted(c, go, pd, how, fired) ==
  [ctr |-> c, go |-> go, project_data |-> pd, how |-> how, fired |-> fired]

\* _process_item_with_return, lines 210-235: project_data is what the
\* extractor returned.
StreamExtracted(ctr, item, project_data) ==
  IF project_data = NoData
    THEN Extracted(Bump(ctr, "rejected_count"), FALSE, NoData, "ai_or_rules_rejected",
                   FALSE)
  ELSE IF project_data.status \notin active_statuses
    THEN Extracted(Bump(ctr, "rejected_count"), FALSE, NoData, "inactive_status", FALSE)
  ELSE Extracted(ctr, TRUE,
                 Scored(project_data,
                        base_confidence(calculate_confidence_score(project_data, 1),
                                        ItemReliability(item))),
                 "go", FALSE)

\* item.get('text', '')
StreamText(item) == ItemGet(item, "text", EmptyText)

\* _process_item_with_return (streaming), lines 199-235: up to the duplicate
\* lookup.
StreamExtract(ctr, item, ai, f) ==
  IF StreamText(item).blank
    THEN Extracted(Bump(ctr, "rejected_count"), FALSE, NoData, "missing_text", FALSE)
  ELSE IF f = "extract"
    THEN Extracted(Bump(ctr, "error_count"), FALSE, NoData, "exception", TRUE)
  ELSE StreamExtracted(ctr, item, extract_project_info(StreamText(item), item.url, ai))

\* lines 246-255 and 267-276: add_source inside try / except: pass
AttachSource(db, project_id, item, f) ==
  IF f = "add_source2" THEN db
  ELSE add_source(db, project_id,
                  [source_url |-> item.url, reliability_score |-> ItemReliability(item)])

\* lines 257-260 and 278-281: c is what _recompute_confidence did.
StreamRecomputed(ctr, id, how, fired, c) == Result(c.db, ctr, id, how, fired \/ c.fired)

\* lines 241-260: the merge; u is what _update_existing_project did.
StreamMerge(ctr, item, project_id, u, f) ==
  StreamRecomputed(Bump(ctr, "updated_count"), project_id, "updated",
                   u.fired \/ f = "add_source2",
                   _recompute_confidence(AttachSource(u.db, project_id, item, f),
                                         project_id, item.official_source, f))

\* lines 262-283: the creation; a is what _add_new_project did.
StreamCreate(ctr, item, a, f) ==
  IF a.id # 0
    THEN StreamRecomputed(Bump(ctr, "added_count"), a.id, "added", f = "add_source2",
                          _recompute_confidence(AttachSource(a.db, a.id, item, f),
                                                a.id, item.official_source, f))
  ELSE Result(a.db, Bump(ctr, "processed_count"), 0, "not_saved", a.fired)

\* _process_item_with_return, lines 240-283: what follows the lookup, `similar`
\* being the ids find_similar_projects returned.
StreamPersist(db, ctr, item, project_data, similar, f) ==
  IF similar # <<>>
    THEN StreamMerge(ctr, item, similar[1],
                     _update_existing_project(db, similar[1], project_data, item.url, f),
                     f)
  ELSE StreamCreate(ctr, item, _add_new_project(db, project_data, item.url, f), f)

\* lines 237-283: e is what StreamExtract gave.
StreamLookup(db, e, item, f) ==
  IF ~e.go THEN Result(db, e.ctr, 0, e.how, e.fired)
  ELSE IF f = "find_similar"
    THEN Result(db, Bump(e.ctr, "error_count"), 0, "exception", TRUE)
  ELSE StreamPersist(db, e.ctr, item, e.project_data,
                     find_similar_projects(db, e.project_data.project_name), f)

\* _process_item_with_return (streaming), the whole handler.
_process_item_with_return(db, ctr, item, ai, f) ==
  StreamLookup(db, StreamExtract(ctr, item, ai, f), item, f)

(* ------------------------------ inputs --------------------------------- *)
\* "King Salman Park Phase 1", "King Salman Park Phase 2",
\* "King Salman Park Project Phase One"
NameA == <<"King", "Salman", "Park", "Phase", "1">>

NameB == <<"King", "Salman", "Park", "Phase", "2">>

NameC == <<"King", "Salman", "Park", "Project", "Phase", "One">>


\* A text the rules accept as Under Construction: name NameA, region Riyadh.
\* A name is part of its text, so the "phase" of the name is in `lex`.
BaseText ==
  [blank |-> FALSE, lex |-> {"under construction", "phase"}, name |-> NameA,
   regions |-> {"Riyadh"}, city |-> "Riyadh", categories |-> {"Infrastructure"},
   entity |-> [owner |-> None, contractor |-> None, consultant |-> None],
   by |-> None]

\* names a contractor
ContractorText == [BaseText EXCEPT !.entity.contractor = "ACME Contracting Group"]

\* another phase: the same first 20 characters, another name
PhaseTwoText == [BaseText EXCEPT !.name = NameB]

\* the same name in another region
TabukText == [BaseText EXCEPT !.regions = {"Tabuk"}, !.city = "Tabuk"]

\* an active indicator that is no status marker: classified Announced
AnnouncedText ==
  [BaseText EXCEPT !.lex = {"being built"}, !.name = <<"King", "Salman", "Park">>]

\* "awarded" beside an Arabic cancellation marker that only _classify_status
\* lists; every entity is named, so the record is as complete as the rules
\* can make one
CancelledText ==
  [BaseText EXCEPT !.lex = {"awarded", "ar:AlgAC", "phase"},
                   !.entity = [owner |-> "Royal Commission Company",
                               contractor |-> "ACME Contracting Group",
                               consultant |-> "Delta Design Group"]]

\* a completed keyword beside an active indicator
CompletedText ==
  [BaseText EXCEPT !.lex = {"under construction", "completed", "phase"}]

Texts ==
  {EmptyText, BaseText, ContractorText, PhaseTwoText, TabukText, AnnouncedText,
   CancelledText, CompletedText}

Url(domain, path) == [domain |-> domain, path |-> path]

\* What a scraper attaches to a text: url, reliability_score (0: the item has
\* none), official_source.  MEEDScraper (0.9), SPAScraper (1.0) and
\* GoogleNewsRSSScraper, whose allowlist gives the publisher's reliability
\* (0.7 when it gives none) and its official flag.
Metas ==
  {<<Url("meed.com", "/a1"), 90, FALSE>>,
   <<Url("meed.com", "/a2"), 90, FALSE>>,
   <<Url("spa.gov.sa", "/n1"), 100, FALSE>>,
   <<Url("momah.gov.sa", "/p1"), 95, TRUE>>,
   <<Url("example.com", "/p"), 70, FALSE>>}

Item(content, keys, meta) ==
  [content |-> content, keys |-> keys, url |-> meta[1],
   reliability_score |-> meta[2], official_source |-> meta[3]]

\* The keys holding the text: 'text' in the items of MEEDScraper, SPAScraper,
\* ArabicNewsScraper and GoogleNewsRSSScraper; 'raw_text' (with 'description')
\* in those of NewsScraper, GoogleNewsScraper, ConstructionScraper and
\* MEEDProjectsScraper, which carry no reliability_score and no
\* official_source.
TextKeys == {"text"}

RawKeys == {"raw_text", "description"}

RawItem(content, url) == Item(content, RawKeys, <<url, 0, FALSE>>)

\* BaseText from every source, in either layout: the items whose resubmission
\* is tracked.
ProbeItems ==
  {Item(BaseText, TextKeys, m) : m \in Metas}
    \cup {RawItem(BaseText, Url("meed.com", "/a1"))}

\* The items scrape_all may return: ProbeItems, every text from one source in
\* either layout, and CancelledText from the most reliable source.
Items ==
  ProbeItems
    \cup {Item(t, TextKeys, <<Url("meed.com", "/a2"), 90, FALSE>>) : t \in Texts}
    \cup {RawItem(t, Url("meed.com", "/a2")) : t \in Texts}
    \cup {RawItem(CancelledText, Url("spa.gov.sa", "/n1"))}

ErrorReply == [kind |-> "error"]

\* A complete, valid JSON reply.
FullData ==
  [project_name |-> NameA, status |-> "Under Construction", region |-> "Riyadh",
   city |-> "Riyadh", category |-> "Infrastructure",
   project_owner |-> "Royal Commission Company",
   main_contractor |-> "ACME Contracting Group", consultant |-> "Delta Design Group",
   description |-> "summary", start_date |-> "2024-01-01",
   project_value |-> "5 billion SAR", source_url |-> None, extracted_by |-> None]

Json(data) == [kind |-> "json", rejected |-> FALSE, data |-> data]

Replies ==
  {ErrorReply,
   [kind |-> "json", rejected |-> TRUE, data |-> FullData],
   Json(FullData),
   Json([FullData EXCEPT !.project_name = NameC, !.status = "Planning"]),
   Json([FullData EXCEPT !.status = "Completed"]),
   Json([FullData EXCEPT !.project_name = NameB, !.category = None,
                         !.main_contractor = None]),
   Json([FullData EXCEPT !.consultant = None]),
   Json([FullData EXCEPT !.project_name = <<>>]),
   Json([FullData EXCEPT !.region = None])}

\* What one handler call is given: the item and, with a client, the reply.
\* A JSON reply makes the text irrelevant, so it is paired with BaseText.
Inputs(client) ==
  {<<i, ErrorReply>> : i \in Items}
    \cup (IF client
            THEN {Item(BaseText, TextKeys, <<Url("meed.com", "/a1"), 90, FALSE>>),
                  RawItem(BaseText, Url("meed.com", "/a1"))}
                   \X (Replies \ {ErrorReply})
            ELSE {})

(* ------------------------------ state ---------------------------------- *)
VARIABLES
  db,        \* the store
  ctr,       \* the DataPipeline counters
  pc,        \* "idle", "batch", "stream_start", "stream", "done", "raised",
             \* "cancelled"
  n,         \* len(scraped_items) of the run
  idx,       \* items of the run handled so far
  summary,   \* the Summary returned / the completion event yielded
  runs,      \* runs started
  faults,    \* calls that raised
  scraped,   \* items scraped over all runs
  client,    \* ai_engine.openai_client is set
  threshold, \* config.CONFIDENCE_THRESHOLD, in 1/100
  last,      \* the last item handled: how it ended
  pair,      \* a batch and a streaming run side by side (SpecPair)
  conc,      \* two streaming processes on one store (SpecConc)
  ext,       \* one extractor call: its input and what it returned (SpecExtract)
  fp         \* one BaseScraper.fetch_page call (SpecFetch)

seqvars ==
  <<db, ctr, pc, n, idx, summary, runs, faults, scraped, client, threshold, last>>

vars ==
  <<db, ctr, pc, n, idx, summary, runs, faults, scraped, client, threshold, last, pair,
    conc, ext, fp>>

NoSummary == [completed |-> FALSE]

\* The value of pair, conc, ext or fp in a specification that does not use it.
Off == [pc |-> "off"]

NoLast ==
  [mode |-> "none", how |-> "none", id |-> 0, f |-> "none", probe |-> <<>>,
   again |-> FALSE]

Init ==
  /\ db = EmptyDb
  /\ ctr = ZeroCounters
  /\ pc = "idle"
  /\ n = 0
  /\ idx = 0
  /\ summary = NoSummary
  /\ runs = 0
  /\ faults = 0
  /\ scraped = 0
  /\ client \in BOOLEAN
  /\ threshold \in Thresholds
  /\ last = NoLast
  /\ pair = Off
  /\ conc = Off
  /\ ext = Off
  /\ fp = Off

\* The lengths scrape_all's list may have.
Lengths == 0..Min(MaxItems, MaxScraped - scraped)

\* The faults a handler call may be given: "none", or a site while the budget
\* lasts.
Faults == IF faults < MaxFaults THEN FaultSites \cup {"none"} ELSE {"none"}

\* The record of a handled item; probe: the <<item, reply>> if tracked.
Handled(mode, in, r, f) ==
  LET probe == IF in[1] \in ProbeItems /\ f = "none" THEN <<in>> ELSE <<>>
  IN [mode |-> mode, how |-> r.how, id |-> r.id, f |-> f, probe |-> probe,
      again |-> probe # <<>> /\ probe = last.probe /\ last.mode = mode
                /\ last.id # 0 /\ idx > 0]

\* run_full_pipeline, lines 44-62: scrape_all, then add_scraping_log, which
\* is outside any try.  The counters are not reset.
StartBatch ==
  /\ pc \in {"idle", "done", "raised", "cancelled"}
  /\ runs < MaxRuns
  /\ \E k \in Lengths, f \in {"none", "add_scraping_log"} :
       /\ f # "none" => faults < MaxFaults
       /\ ctr' = [ctr EXCEPT !.scraped_count = k]
       /\ n' = k
       /\ scraped' = scraped + k
       /\ pc' = IF f = "none" THEN "batch" ELSE "raised"
       /\ faults' = IF f = "none" THEN faults ELSE faults + 1
  /\ idx' = 0
  /\ runs' = runs + 1
  /\ summary' = NoSummary
  /\ last' = NoLast
  /\ UNCHANGED <<db, client, threshold, pair, conc, ext, fp>>

\* One item handled: r is what the handler gave.  A fault is chosen only where
\* its call is reached.
ItemHandled(mode, in, f, r) ==
  /\ f # "none" => r.fired
  /\ db' = r.db
  /\ ctr' = r.ctr
  /\ faults' = IF f = "none" THEN faults ELSE faults + 1
  /\ last' = Handled(mode, in, r, f)
  /\ idx' = idx + 1
  /\ UNCHANGED <<pc, n, summary, runs, scraped, client, threshold, pair, conc, ext, fp>>

Ai(reply) == [client |-> client, reply |-> reply]

\* run_full_pipeline, lines 66-67: one iteration of the loop.
BatchItem ==
  /\ pc = "batch"
  /\ idx < n
  /\ \E in \in Inputs(client), f \in Faults :
       ItemHandled("batch", in, f, _process_item(db, ctr, in[1], Ai(in[2]), threshold, f))

CountsOf(c, processed) ==
  [completed |-> TRUE, scraped |-> c.scraped_count, processed |-> processed,
   added |-> c.added_count, updated |-> c.updated_count,
   rejected |-> c.rejected_count, errors |-> c.error_count]

\* run_full_pipeline, lines 69-92: the Summary.
BatchFinish ==
  /\ pc = "batch"
  /\ idx = n
  /\ summary' = CountsOf(ctr, ctr.processed_count)
  /\ pc' = "done"
  /\ UNCHANGED <<db, ctr, n, idx, runs, faults, scraped, client, threshold, last, pair, conc, ext, fp>>

\* run_streaming_pipeline, lines 101-122: reset, then the first yield.
StartStream ==
  /\ pc \in {"idle", "done", "raised", "cancelled"}
  /\ runs < MaxRuns
  /\ ctr' = ZeroCounters
  /\ pc' = "stream_start"
  /\ n' = 0
  /\ idx' = 0
  /\ runs' = runs + 1
  /\ summary' = NoSummary
  /\ last' = NoLast
  /\ UNCHANGED <<db, faults, scraped, client, threshold, pair, conc, ext, fp>>

\* run_streaming_pipeline, lines 126-129: scrape_all (it catches what its
\* scrapers raise).
StreamScrape ==
  /\ pc = "stream_start"
  /\ \E k \in Lengths :
       /\ ctr' = [ctr EXCEPT !.scraped_count = k]
       /\ n' = k
       /\ scraped' = scraped + k
  /\ pc' = "stream"
  /\ UNCHANGED <<db, idx, summary, runs, faults, client, threshold, last, pair, conc, ext, fp>>

\* run_streaming_pipeline, lines 132-164: one iteration, up to its yield.
StreamItem ==
  /\ pc = "stream"
  /\ idx < n
  /\ \E in \in Inputs(client), f \in Faults :
       ItemHandled("streaming", in, f,
                   _process_item_with_return(db, ctr, in[1], Ai(in[2]), f))

\* run_streaming_pipeline, lines 166-182: the completion event (it carries no
\* errors count; the record keeps the counter beside it).
StreamFinish ==
  /\ pc = "stream"
  /\ idx = n
  /\ summary' = CountsOf(ctr, ctr.processed_count)
  /\ pc' = "done"
  /\ UNCHANGED <<db, ctr, n, idx, runs, faults, scraped, client, threshold, last, pair, conc, ext, fp>>

\* The consumer abandons the generator while it is suspended at a yield (the
\* first one or an item's): GeneratorExit is raised there, no except clause
\* of run_streaming_pipeline catches it and nothing more runs.
StreamCancel ==
  /\ pc \in {"stream_start", "stream"}
  /\ pc' = "cancelled"
  /\ UNCHANGED <<db, ctr, n, idx, summary, runs, faults, scraped, client, threshold, last, pair, conc, ext, fp>>

Next ==
  \/ StartBatch
  \/ BatchItem
  \/ BatchFinish
  \/ StartStream
  \/ StreamScrape
  \/ StreamItem
  \/ StreamFinish
  \/ StreamCancel

Spec == Init /\ [][Next]_vars

(* ---------------------- one extractor call ----------------------------- *)
\* "NEOM announces The Line project under construction in Tabuk, awarded to
\* ACME Contracting Group.": the keywords of the tables occurring in it are
\* "under construction" and "awarded"; no name pattern matches ("project" is
\* followed by a lower-case word, "The" is not "the", no suffix noun), so the
\* name is the first sentence; "neom" is a Mega Project keyword; no entity
\* label and no "by" occurs in it.
NeomText ==
  [blank |-> FALSE, lex |-> {"under construction", "awarded"},
   name |-> <<"NEOM", "announces", "The", "Line", "project", "under", "construction",
              "in", "Tabuk,", "awarded", "to", "ACME", "Contracting", "Group">>,
   regions |-> {"Tabuk"}, city |-> "Tabuk", categories |-> {"Mega Project"},
   entity |-> [owner |-> None, contractor |-> None, consultant |-> None],
   by |-> None]

\* "Riyadh Metro project has been completed and inaugurated."
MetroText ==
  [blank |-> FALSE, lex |-> {"completed", "inaugurated"},
   name |-> <<"Riyadh", "Metro", "project", "has", "been", "completed", "and",
              "inaugurated">>,
   regions |-> {"Riyadh"}, city |-> "Riyadh", categories |-> {"Infrastructure"},
   entity |-> [owner |-> None, contractor |-> None, consultant |-> None],
   by |-> None]

\* The keywords of the rejection scan for completed projects (line 175).
CompletedLexemes ==
  completed_keywords_en \cup completed_keywords_ar \cup COMPLETED_KEYWORDS

\* A text with the keywords l, the name nm and the regions rg: the "phase"
\* of a name is a keyword of the text, and the city found is the first of
\* "Riyadh", "Tabuk" (which are cities and regions) occurring in it.
Text(l, nm, rg) ==
  [BaseText EXCEPT
     !.lex = l \cup (IF \E i \in DOMAIN nm : nm[i] = "Phase" THEN {"phase"} ELSE {}),
     !.name = nm,
     !.regions = rg,
     !.city = IF "Riyadh" \in rg THEN "Riyadh"
              ELSE IF "Tabuk" \in rg THEN "Tabuk" ELSE None]

\* The texts given to the extractor: every combination of some keywords, of
\* names of 0, 4, 9, 10 and 24 characters and of the regions found; each
\* completed keyword beside an active indicator; the texts of the pipeline
\* runs and the two sentences above.
ExtTexts ==
  {Text(l, nm, rg) :
     l \in SUBSET {"completed", "ar:mnjz", "cancelled", "under construction",
                   "awarded"},
     nm \in {<<>>, <<"Park">>, <<"King", "Park">>, <<"Park", "Phase">>, NameA},
     rg \in {{}, {"Tabuk"}, {"Riyadh", "Tabuk"}}}
    \cup {Text({k, "under construction"}, NameA, {"Riyadh"}) : k \in CompletedLexemes}
    \cup Texts \cup {NeomText, MetroText}

\* How many times _extract_with_rules runs in one extract_project_info call:
\* once without a client (line 76), once in the except clause (line 159).
RulesRuns(ai) ==
  IF ~ai.client THEN 1
  ELSE IF ai.reply.kind = "error" THEN 1
  ELSE 0

InitExtract ==
  /\ db = EmptyDb
  /\ ctr = ZeroCounters
  /\ pc = "idle"
  /\ n = 0
  /\ idx = 0
  /\ summary = NoSummary
  /\ runs = 0
  /\ faults = 0
  /\ scraped = 0
  /\ client \in BOOLEAN
  /\ threshold = CONFIDENCE_THRESHOLD
  /\ last = NoLast
  /\ pair = Off
  /\ conc = Off
  /\ fp = Off
  /\ \E t \in ExtTexts, u \in {Url("meed.com", "/a1"), Url("spa.gov.sa", "/n1")} :
       ext = [pc |-> "in", text |-> t, url |-> u, reply |-> ErrorReply,
              out |-> NoData, rules_runs |-> 0, status |-> None,
              source_count |-> 0, score |-> 0]

\* _extract_with_rules(text, source_url)
ExtRules ==
  /\ ext.pc = "in"
  /\ ext' = [ext EXCEPT !.pc = "rules",
                        !.out = _extract_with_rules(ext.text, ext.url),
                        !.rules_runs = 1]
  /\ UNCHANGED seqvars
  /\ UNCHANGED <<pair, conc, fp>>

\* extract_project_info(text, source_url); with a client, `reply` is what the
\* completion call produces.
ExtInfo ==
  /\ ext.pc = "in"
  /\ \E reply \in (IF client THEN Replies ELSE {ErrorReply}) :
       ext' = [ext EXCEPT !.pc = "info", !.reply = reply,
                          !.out = extract_project_info(ext.text, ext.url, Ai(reply)),
                          !.rules_runs = RulesRuns(Ai(reply))]
  /\ UNCHANGED seqvars
  /\ UNCHANGED <<pair, conc, fp>>

\* _classify_status(text)
ExtClassify ==
  /\ ext.pc = "in"
  /\ ext' = [ext EXCEPT !.pc = "status", !.status = _classify_status(ext.text)]
  /\ UNCHANGED seqvars
  /\ UNCHANGED <<pair, conc, fp>>

\* calculate_confidence_score(project_data, source_count) for a record the
\* extractor returned
ExtScore ==
  /\ ext.pc \in {"rules", "info"}
  /\ ext.out # NoData
  /\ \E k \in 0..MaxSources :
       ext' = [ext EXCEPT !.pc = "score", !.source_count = k,
                          !.score = calculate_confidence_score(ext.out, k)]
  /\ UNCHANGED seqvars
  /\ UNCHANGED <<pair, conc, fp>>

NextExtract ==
  \/ ExtRules
  \/ ExtInfo
  \/ ExtClassify
  \/ ExtScore

SpecExtract == InitExtract /\ [][NextExtract]_vars

\* C11: completed takes precedence: for every text that contains a completed
\* keyword, the rule-based extractor returns no record, whether or not the
\* text also holds cancelled keywords or active indicators; so it is for
\* "Riyadh Metro project has been completed and inaugurated.".
C11_CompletedRejected ==
  ext.pc = "rules"
    /\ (ContainsAny(ext.text, CompletedLexemes \cup completed_markers_ar)
          \/ ext.text = MetroText)
    => ext.out = NoData

\* a text with a completed keyword, a cancelled keyword and active indicators
\* was given to the rules
C11_Witness ==
  /\ ext.pc = "rules"
  /\ {"completed", "cancelled", "under construction", "awarded"} \subseteq ext.text.lex
  /\ ext.out = NoData

\* C13: the rule-based extractor accepts "NEOM announces The Line project
\* under construction in Tabuk, awarded to ACME Contracting Group." with
\* status Under Construction, region Tabuk, category Mega Project and a
\* main_contractor containing "ACME".
C13_NeomScenario ==
  ext.pc = "rules" /\ ext.text = NeomText
    => /\ ext.out # NoData
       /\ ext.out.status = "Under Construction"
       /\ ext.out.region = "Tabuk"
       /\ ext.out.category = "Mega Project"
       /\ ext.out.main_contractor \in {"ACME Contracting Group"}

\* C18: when the AI path ends in an error, extract_project_info returns what
\* the rule-based extractor returns for the same text and source URL, and the
\* rule-based extractor has run exactly once.
C18_Fallback ==
  ext.pc = "info" /\ client /\ ext.reply.kind = "error"
    => /\ ext.out = _extract_with_rules(ext.text, ext.url)
       /\ ext.rules_runs = 1

\* the AI path failed and the fallback produced a record
C18_Witness ==
  /\ ext.pc = "info"
  /\ client
  /\ ext.reply.kind = "error"
  /\ ext.out # NoData
  /\ ext.out.extracted_by = "rules"
  /\ ext.out.source_url = ext.url

\* C19: every record the rule-based extractor accepts has a non-empty name of
\* at least 10 characters and a region that is one of the 13 gazetteer
\* entries; a text with a shorter name or no gazetteer region gives no record.
C19_NameAndRegion ==
  ext.pc = "rules" =>
    /\ Len(SAUDI_REGIONS) = 13
    /\ ext.out # NoData =>
         /\ ext.out.project_name # <<>>
         /\ StrLen(ext.out.project_name) >= 10
         /\ \E i \in DOMAIN SAUDI_REGIONS : ext.out.region = SAUDI_REGIONS[i]
    /\ (StrLen(_extract_project_name(ext.text)) < 10
          \/ _extract_region(ext.text) = None) => ext.out = NoData

\* a name of exactly 10 characters was accepted
C19_Witness ==
  /\ ext.pc = "rules"
  /\ ext.out # NoData
  /\ StrLen(ext.out.project_name) = 10

\* C25: with a client, a JSON reply that has rejected = true, or no
\* project_name, or no region, or a status outside Active, Ongoing, Under
\* Construction, Planning, Announced makes extract_project_info return no
\* record, and the rule-based extractor does not run.
C25_InvalidReplyRejected ==
  /\ ext.pc = "info"
  /\ client
  /\ ext.reply.kind = "json"
  /\ \/ ext.reply.rejected
     \/ ext.reply.data.project_name = <<>>
     \/ Falsy(ext.reply.data.region)
     \/ ext.reply.data.status
          \notin {"Active", "Ongoing", "Under Construction", "Planning", "Announced"}
  => ext.out = NoData /\ ext.rules_runs = 0

\* a reply with status Completed, otherwise complete, was refused for a text
\* the rules would have accepted
C25_Witness ==
  /\ ext.pc = "info"
  /\ client
  /\ ext.reply.kind = "json"
  /\ ~ext.reply.rejected
  /\ ext.reply.data.status = "Completed"
  /\ _extract_with_rules(ext.text, ext.url) # NoData
  /\ ext.out = NoData

\* C27: for every record and every source_count >= 0 the score (in 1/100) is
\* between 0 and 1, is not smaller than the score for one source less, grows
\* by 0.3 / 5 = 0.06 per source up to five sources, and for five sources or
\* more is the score for five.
C27_ScoreBounded ==
  ext.pc = "score" =>
    /\ 0 <= ext.score /\ ext.score <= 100
    /\ ext.source_count > 0 =>
         ext.score >= calculate_confidence_score(ext.out, ext.source_count - 1)
    /\ ext.source_count <= 5 =>
         ext.score = calculate_confidence_score(ext.out, 0) + 6 * ext.source_count
    /\ ext.source_count >= 5 => ext.score = calculate_confidence_score(ext.out, 5)

\* a record was scored for more than five sources
C27_Witness ==
  /\ ext.pc = "score"
  /\ ext.source_count > 5
  /\ ext.score = calculate_confidence_score(ext.out, 5)
  /\ ext.score > calculate_confidence_score(ext.out, 4)

\* C28: the status is Completed if the text has a completed marker, else
\* Cancelled if it has a cancelled marker, else Under Construction if it has
\* an under-construction marker, else Ongoing if it has an ongoing marker,
\* else Active if it has a generic active keyword, else Announced.
C28_StatusPriority ==
  ext.pc = "status" =>
    LET completed ==
          ContainsAny(ext.text, COMPLETED_KEYWORDS \cup completed_markers_ar)
        cancelled ==
          ContainsAny(ext.text, CANCELLED_KEYWORDS \cup cancelled_markers_ar)
        building ==
          ContainsAny(ext.text,
                      under_construction_markers \cup under_construction_markers_ar)
        ongoing == ContainsAny(ext.text, ongoing_markers \cup ongoing_markers_ar)
        active == \E i \in DOMAIN ACTIVE_KEYWORDS :
                    Contains(ext.text, ACTIVE_KEYWORDS[i])
    IN /\ completed => ext.status = "Completed"
       /\ ~completed /\ cancelled => ext.status = "Cancelled"
       /\ ~completed /\ ~cancelled /\ building => ext.status = "Under Construction"
       /\ ~completed /\ ~cancelled /\ ~building /\ ongoing => ext.status = "Ongoing"
       /\ ~completed /\ ~cancelled /\ ~building /\ ~ongoing /\ active
            => ext.status = "Active"
       /\ ~completed /\ ~cancelled /\ ~building /\ ~ongoing /\ ~active
            => ext.status = "Announced"

\* a text with an under-construction marker and an ongoing marker, and no
\* completed or cancelled marker, was classified Under Construction
C28_Witness ==
  /\ ext.pc = "status"
  /\ Contains(ext.text, "under construction")
  /\ Contains(ext.text, "phase")
  /\ ext.status = "Under Construction"

(* ------------------- scrapers/base_scraper.py -------------------------- *)
\* One call fetch_page(url, retries) on a scraper whose error_count is
\* errors0: `attempt` is the loop variable, `requests` the session.get calls
\* made, `waits` the back-off sleeps taken (in seconds), `result` what the
\* call returned.
InitFetch ==
  /\ db = EmptyDb
  /\ ctr = ZeroCounters
  /\ pc = "idle"
  /\ n = 0
  /\ idx = 0
  /\ summary = NoSummary
  /\ runs = 0
  /\ faults = 0
  /\ scraped = 0
  /\ client = FALSE
  /\ threshold = CONFIDENCE_THRESHOLD
  /\ last = NoLast
  /\ pair = Off
  /\ conc = Off
  /\ ext = Off
  /\ \E r \in 0..MaxRetries, e \in 0..MaxErrors :
       fp = [pc |-> "loop", retries |-> r, attempt |-> 0, requests |-> 0,
             waits |-> <<>>, errors0 |-> e, error_count |-> e, result |-> "pending"]

\* A variant of the attempt that counts every failed request in error_count.
FetchTryCounting ==
  /\ fp.pc = "loop"
  /\ fp.attempt < fp.retries
  /\ \E ok \in BOOLEAN :
       fp' = IF ok
               THEN [fp EXCEPT !.requests = @ + 1, !.pc = "returned", !.result = "page"]
             ELSE IF fp.attempt < fp.retries - 1
               THEN [fp EXCEPT !.requests = @ + 1, !.error_count = @ + 1,
                               !.pc = "backoff"]
             ELSE [fp EXCEPT !.requests = @ + 1, !.error_count = @ + 1,
                             !.pc = "returned", !.result = "None"]
  /\ UNCHANGED seqvars
  /\ UNCHANGED <<pair, conc, ext>>

\* Lines 50-74, one iteration of the loop up to its sleep: the request (which
\* carries timeout=REQUEST_TIMEOUT) succeeds and the page is returned, or it
\* raises a RequestException (raise_for_status included) and either the
\* back-off follows or, on the last attempt, error_count is incremented and
\* None is returned.
FetchTry ==
  /\ fp.pc = "loop"
  /\ fp.attempt < fp.retries
  /\ \E ok \in BOOLEAN :
       fp' = IF ok
               THEN [fp EXCEPT !.requests = @ + 1, !.pc = "returned", !.result = "page"]
             ELSE IF fp.attempt < fp.retries - 1
               THEN [fp EXCEPT !.requests = @ + 1, !.pc = "backoff"]
             ELSE [fp EXCEPT !.requests = @ + 1, !.error_count = @ + 1,
                             !.pc = "returned", !.result = "None"]
  /\ UNCHANGED seqvars
  /\ UNCHANGED <<pair, conc, ext>>

\* Line 70: time.sleep(2 ** attempt), then the next iteration.
FetchSleep ==
  /\ fp.pc = "backoff"
  /\ fp' = [fp EXCEPT !.waits = Append(@, 2 ^ fp.attempt), !.attempt = @ + 1,
                      !.pc = "loop"]
  /\ UNCHANGED seqvars
  /\ UNCHANGED <<pair, conc, ext>>

\* Line 76: the loop ends without a return (range(retries) is empty).
FetchEnd ==
  /\ fp.pc = "loop"
  /\ fp.attempt >= fp.retries
  /\ fp' = [fp EXCEPT !.pc = "returned", !.result = "None"]
  /\ UNCHANGED seqvars
  /\ UNCHANGED <<pair, conc, ext>>

NextFetch ==
  \/ FetchTry
  \/ FetchSleep
  \/ FetchEnd

\* The call runs on: neither a request (it has a timeout) nor a sleep lasts
\* forever.
SpecFetch == InitFetch /\ [][NextFetch]_vars /\ WF_vars(NextFetch)

\* C29: fetch_page makes at most `retries` requests and returns: the page at
\* the first request that succeeds (no request follows it, error_count is
\* unchanged), and None after `retries` failed requests, with error_count
\* incremented by exactly 1; the waits between the failed requests are 1, 2,
\* 4, ... (2^attempt) seconds; error_count is never incremented more than
\* once.
C29_FetchTerminates ==
  /\ [](/\ fp.requests <= fp.retries
        /\ fp.error_count <= fp.errors0 + 1
        /\ fp.waits = [i \in 1..fp.attempt |-> 2 ^ (i - 1)]
        /\ fp.pc = "returned" /\ fp.result = "page" =>
             /\ fp.requests = fp.attempt + 1
             /\ fp.error_count = fp.errors0
        /\ fp.pc = "returned" /\ fp.result = "None" /\ fp.retries > 0 =>
             /\ fp.requests = fp.retries
             /\ Len(fp.waits) = fp.retries - 1
             /\ fp.error_count = fp.errors0 + 1
        /\ fp.pc # "returned" => fp.result = "pending" /\ fp.error_count = fp.errors0)
  /\ <>(fp.pc = "returned")

\* three requests failed, with waits of 1 and 2 seconds between them, and
\* None was returned
C29_Witness ==
  /\ fp.pc = "returned"
  /\ fp.result = "None"
  /\ fp.retries = 3
  /\ fp.requests = 3
  /\ fp.waits = <<1, 2>>
  /\ fp.error_count = fp.errors0 + 1
(* ------------------------------ claims --------------------------------- *)
Accounted(c) ==
  c.added_count + c.updated_count + c.rejected_count + c.error_count

\* C1: when a run (batch or streaming) has completed, every scraped item has
\* been counted in exactly one of added, updated, rejected, errors:
\* added + updated + rejected + errors = scraped.
C1_SummaryConsistent == pc = "done" => Accounted(ctr) = ctr.scraped_count

\* The statuses the specification allows in the store.
AllowedStatuses == {"Active", "Ongoing", "Under Construction", "Planning", "Announced"}

\* C2: in every reachable store state, in either mode, every persisted project
\* has a status among Active, Ongoing, Under Construction, Planning, Announced;
\* a Completed or Cancelled record never reaches add_project.
C2_StatusAllowed ==
  \A p \in DOMAIN db.projects : db.projects[p].status \in AllowedStatuses

\* C3: after the same item (same text, same URL, same extraction) has been
\* handled twice in a row, there is exactly one project of that name and
\* exactly one source row with that URL attached to it.
C3_Idempotent ==
  last.again =>
    /\ Cardinality({p \in DOMAIN db.projects :
                      db.projects[p].project_name
                        = db.projects[last.id].project_name}) = 1
    /\ Cardinality({i \in get_project_sources(db, last.id) :
                      db.sources[i].source_url = last.probe[1][1].url}) = 1

\* C4: while no call has raised, a step that attaches a further source row to
\* a persisted project never leaves the project's confidence_score lower than
\* before the step.
C4_Monotone ==
  [][faults' = 0 =>
       \A p \in DOMAIN db.projects :
         Cardinality(get_project_sources(db', p))
             > Cardinality(get_project_sources(db, p))
           => db'.projects[p].confidence_score >= db.projects[p].confidence_score]_vars

\* C6: when a call raises while an item is handled (extraction, duplicate
\* lookup or a store call), errors grows by exactly 1 for that item and the
\* run goes on with the next item.
C6_FailureCounted ==
  [][idx' = idx + 1 /\ last'.f # "none"
       => ctr'.error_count = ctr.error_count + 1 /\ pc' = pc]_vars

\* C7: no run ends without its Summary (batch) or its completed event
\* (streaming), whatever call raised during the run.
C7_EndsWithSummary == pc # "raised"

\* C8: in every reachable store state, also after a store write failed while
\* a project was being created, every persisted project has at least one
\* source row.
C8_HasSource ==
  \A p \in DOMAIN db.projects : get_project_sources(db, p) # {}

\* C9: what _recompute_confidence writes for a persisted project depends on
\* the persisted rows alone: it is the same whatever the official_source flag
\* of the item that triggers it.
C9_PersistedOnly ==
  \A p \in DOMAIN db.projects :
    _recompute_confidence(db, p, TRUE, "none")
      = _recompute_confidence(db, p, FALSE, "none")

\* C12: "King Salman Park Phase 1" and "King Salman Park Project Phase One" in
\* the same region, processed one after the other from an empty store, are
\* merged: the store never holds a project row for each of them.
C12_ScenarioMerged ==
  \A p \in DOMAIN db.projects, q \in DOMAIN db.projects :
    ~(/\ db.projects[p].project_name = NameA
      /\ db.projects[q].project_name = NameC
      /\ db.projects[p].region = db.projects[q].region)

\* C14: a streaming run over n items has emitted one progress event per item
\* when it emits its final event, which has completed = True and carries the
\* run's added, updated and rejected counts and processed = n.
C14_FinalEvent ==
  pc = "done" /\ last.mode = "streaming" =>
    /\ summary.completed
    /\ idx = n
    /\ summary.added = ctr.added_count
    /\ summary.updated = ctr.updated_count
    /\ summary.rejected = ctr.rejected_count
    /\ summary.processed = n

\* C15: within one run added, updated, rejected and errors never decrease from
\* one step to the next, and when the run completes their sum is the processed
\* count its summary or completion event reports.
C15_SumIsProcessed ==
  [][runs' = runs =>
       /\ \A c \in {"added_count", "updated_count", "rejected_count", "error_count"} :
            ctr'[c] >= ctr[c]
       /\ pc' = "done" /\ pc # "done" => Accounted(ctr') = summary'.processed]_vars

\* C16: when a streaming run is abandoned at a yield, no item is partially
\* applied: every project the run created has its source row.  (In the first
\* run on the empty store every project was created by the run.)
C16_CancelAtomic ==
  pc = "cancelled" /\ runs = 1 =>
    \A p \in DOMAIN db.projects : get_project_sources(db, p) # {}

\* C17: when the store write creating a project fails for an item (add_project
\* or the add_source after it raises), errors grows by 1 for that item, added
\* does not grow and the run goes on.
C17_CreateFailureCounted ==
  [][idx' = idx + 1 /\ last'.f \in {"add_project", "add_source"}
       => /\ ctr'.error_count = ctr.error_count + 1
          /\ ctr'.added_count = ctr.added_count
          /\ pc' = pc]_vars

\* C20: in either mode an item is merged into an existing project only when
\* the name similarity of its record and the project is above 0.85 and both
\* have the same region: from every reachable store, whatever item is
\* handled next.
C20_MergeGated ==
  \A in \in Inputs(client) :
    LET b == _process_item(db, ctr, in[1], Ai(in[2]), threshold, "none")
        e == StreamExtract(ctr, in[1], Ai(in[2]), "none")
        s == StreamLookup(db, e, in[1], "none")
    IN /\ b.how = "updated" =>
            is_duplicate(extract_project_info(BatchText(in[1]), in[1].url, Ai(in[2])),
                         db.projects[b.id])
       /\ s.how = "updated" => is_duplicate(e.project_data, db.projects[s.id])

\* C21: when an item is merged into an existing project, project_name, status,
\* region and category of the project are unchanged, and a field of the
\* project changes only if it was empty before and is non-empty afterwards:
\* a populated field keeps its value.  No other project changes.
C21_NoClobber ==
  [][idx' = idx + 1 /\ last'.how = "updated" =>
       /\ Len(db'.projects) = Len(db.projects)
       /\ \A p \in DOMAIN db.projects :
            /\ \A k \in required_fields : db'.projects[p][k] = db.projects[p][k]
            /\ \A k \in fields_to_check :
                 db'.projects[p][k] # db.projects[p][k] =>
                   /\ p = last'.id
                   /\ Falsy(db.projects[p][k])
                   /\ Truthy(db'.projects[p][k])]_vars

\* A batch merge has filled the contractor of a project (in a first run in
\* batch mode only a merge that writes bumps update_count).
C21_Witness ==
  /\ runs = 1
  /\ last.mode = "batch"
  /\ last.how = "updated"
  /\ db.projects[last.id].update_count = 1
  /\ Truthy(db.projects[last.id].main_contractor)

\* C22: in either mode, every merge of an item whose URL is not yet among the
\* project's sources bumps the project's update_count and leaves exactly one
\* source row with that URL on the project, also when the record fills no
\* empty field.
C22_MergeRecorded ==
  [][/\ idx' = idx + 1
     /\ last'.how = "updated"
     /\ last'.probe # <<>>
     /\ \A i \in get_project_sources(db, last'.id) :
          db.sources[i].source_url # last'.probe[1][1].url
     => /\ db'.projects[last'.id].update_count > db.projects[last'.id].update_count
        /\ Cardinality({i \in get_project_sources(db', last'.id) :
                          db'.sources[i].source_url = last'.probe[1][1].url}) = 1]_vars

\* C23: a project created by the streaming pipeline from a single item that
\* is not official and whose reliability (the item's and its domain's) is
\* below 0.99 ends with confidence 0.62 and is_verified false.
C23_SingleSourceTier ==
  [][/\ idx' = idx + 1
     /\ last'.mode = "streaming"
     /\ last'.how = "added"
     /\ last'.probe # <<>>
     /\ ~last'.probe[1][1].official_source
     /\ ItemReliability(last'.probe[1][1]) < 99
     /\ get_source_reliability(last'.probe[1][1].url) < 99
     => /\ db'.projects[last'.id].confidence_score = 6200
        /\ ~db'.projects[last'.id].is_verified]_vars

\* C24: while no call has raised, a step in either mode that attaches a
\* source row to a persisted project, which then has two or more, leaves the
\* project with a tiered confidence_score, 0.78 or 0.92.
C24_TieredAfterGain ==
  [][idx' = idx + 1 /\ faults' = 0 =>
       \A p \in DOMAIN db.projects :
         /\ Cardinality(get_project_sources(db', p))
              > Cardinality(get_project_sources(db, p))
         /\ Cardinality(get_project_sources(db', p)) >= 2
         => db'.projects[p].confidence_score \in {7800, 9200}]_vars

\* C26: in batch mode, when no call raises, an item whose extraction is
\* accepted (processed grows) and that is merged into no stored project
\* (updated does not grow) creates a project: added grows by 1.
C26_AcceptedIsCreated ==
  [][/\ idx' = idx + 1
     /\ last'.mode = "batch"
     /\ last'.f = "none"
     /\ ctr'.processed_count = ctr.processed_count + 1
     /\ ctr'.updated_count = ctr.updated_count
     => ctr'.added_count = ctr.added_count + 1]_vars

\* C30: every run, batch or streaming, starts from zeroed counters: the step
\* that starts a run leaves added, updated, rejected, processed and errors
\* at 0.
C30_RunIsolation ==
  [][runs' = runs + 1 =>
       \A c \in {"added_count", "updated_count", "rejected_count", "processed_count",
                  "error_count"} : ctr'[c] = 0]_vars

(* ---------------- batch and streaming side by side --------------------- *)
\* Two stores in the same state, a DataPipeline on each; the same scraped
\* list is given to run_full_pipeline on the one and to
\* run_streaming_pipeline on the other.  No call raises.
PairStart ==
  [pc |-> "seed", n |-> 0, idx |-> 0,
   b |-> [db |-> EmptyDb, ctr |-> ZeroCounters],
   s |-> [db |-> EmptyDb, ctr |-> ZeroCounters]]

InitPair ==
  /\ db = EmptyDb
  /\ ctr = ZeroCounters
  /\ pc = "idle"
  /\ n = 0
  /\ idx = 0
  /\ summary = NoSummary
  /\ runs = 0
  /\ faults = 0
  /\ scraped = 0
  /\ client \in BOOLEAN
  /\ threshold \in Thresholds
  /\ last = NoLast
  /\ pair = PairStart
  /\ conc = Off
  /\ ext = Off
  /\ fp = Off

\* Both stores receive the rows of d.
Seeded(d) == [pair EXCEPT !.b.db = d, !.s.db = d, !.pc = "ready"]

\* The common initial store: what an earlier streaming item left.
PairSeed ==
  /\ pair.pc = "seed"
  /\ \E in \in Inputs(client) :
       pair' = Seeded(_process_item_with_return(EmptyDb, ZeroCounters, in[1],
                                                Ai(in[2]), "none").db)
  /\ UNCHANGED seqvars
  /\ UNCHANGED <<conc, ext, fp>>

\* Both runs start on a list of k items: run_full_pipeline lines 48-49,
\* run_streaming_pipeline lines 105-129.
PairRun ==
  /\ pair.pc \in {"seed", "ready"}
  /\ \E k \in 0..MaxItems :
       pair' = [pair EXCEPT !.pc = "run", !.n = k, !.idx = 0,
                            !.b.ctr = [pair.b.ctr EXCEPT !.scraped_count = k],
                            !.s.ctr = [ZeroCounters EXCEPT !.scraped_count = k]]
  /\ UNCHANGED seqvars
  /\ UNCHANGED <<conc, ext, fp>>

\* The store and the counters of what a handler gave.
Side(r) == [db |-> r.db, ctr |-> r.ctr]

\* The next item of the list is handled by each run.
PairItem ==
  /\ pair.pc = "run"
  /\ pair.idx < pair.n
  /\ \E in \in Inputs(client) :
       pair' = [pair EXCEPT
                  !.idx = @ + 1,
                  !.b = Side(_process_item(pair.b.db, pair.b.ctr, in[1], Ai(in[2]),
                                           threshold, "none")),
                  !.s = Side(_process_item_with_return(pair.s.db, pair.s.ctr, in[1],
                                                       Ai(in[2]), "none"))]
  /\ UNCHANGED seqvars
  /\ UNCHANGED <<conc, ext, fp>>

\* Both runs return.
PairFinish ==
  /\ pair.pc = "run"
  /\ pair.idx = pair.n
  /\ pair' = [pair EXCEPT !.pc = "done"]
  /\ UNCHANGED seqvars
  /\ UNCHANGED <<conc, ext, fp>>

NextPair ==
  \/ PairSeed
  \/ PairRun
  \/ PairItem
  \/ PairFinish

SpecPair == InitPair /\ [][NextPair]_vars

\* The persisted projects of a store, apart from their ids and scores.
Persisted(d) ==
  {<<d.projects[p].project_name, d.projects[p].region, d.projects[p].status>> :
     p \in DOMAIN d.projects}

\* C5: for the same list of items and the same initial store, the batch run
\* and the streaming run end with the same added, updated, rejected and errors
\* counts and the same set of persisted projects.
C5_SameReduction ==
  pair.pc = "done" =>
    /\ pair.b.ctr.added_count = pair.s.ctr.added_count
    /\ pair.b.ctr.updated_count = pair.s.ctr.updated_count
    /\ pair.b.ctr.rejected_count = pair.s.ctr.rejected_count
    /\ pair.b.ctr.error_count = pair.s.ctr.error_count
    /\ Persisted(pair.b.db) = Persisted(pair.s.db)

(* ---------------- two processes on one store --------------------------- *)
\* Two processes (a scheduled batch and a dashboard session, or two sessions)
\* share the store; each has its own DataPipeline and handles one item with
\* _process_item_with_return.  Every db_manager call is a transaction of its
\* own, so the other process may run between the duplicate lookup and the
\* writes that follow it.
Procs == {1, 2}

IdleProc ==
  [pc |-> "idle", item |-> RawItem(EmptyText, Url("meed.com", "/a2")),
   project_data |-> NoData, similar |-> <<>>, ctr |-> ZeroCounters,
   how |-> "none", id |-> 0]

InitConc ==
  /\ db = EmptyDb
  /\ ctr = ZeroCounters
  /\ pc = "idle"
  /\ n = 0
  /\ idx = 0
  /\ summary = NoSummary
  /\ runs = 0
  /\ faults = 0
  /\ scraped = 0
  /\ client \in BOOLEAN
  /\ threshold \in Thresholds
  /\ last = NoLast
  /\ pair = Off
  /\ conc = [pc |-> "on", db |-> EmptyDb, proc |-> [p \in Procs |-> IdleProc]]
  /\ ext = Off
  /\ fp = Off

\* The process after its lookup: e is what StreamExtract gave, d the store it
\* reads.
Looked(me, item, e, d) ==
  IF e.go
    THEN [me EXCEPT !.pc = "looked", !.item = item, !.project_data = e.project_data,
                    !.similar = find_similar_projects(d, e.project_data.project_name),
                    !.ctr = e.ctr]
  ELSE [me EXCEPT !.pc = "done", !.item = item, !.ctr = e.ctr, !.how = e.how]

\* _process_item_with_return, lines 199-237: up to and including the call of
\* find_similar_projects.
ConcLookup ==
  /\ \E p \in Procs, in \in Inputs(client) :
       /\ conc.proc[p].pc = "idle"
       /\ conc' = [conc EXCEPT
                     !.proc[p] = Looked(@, in[1],
                                        StreamExtract(@.ctr, in[1], Ai(in[2]), "none"),
                                        conc.db)]
  /\ UNCHANGED seqvars
  /\ UNCHANGED <<pair, ext, fp>>

\* The shared store and process p after its writes: r is what StreamPersist
\* gave.
Persisting(p, r) ==
  [conc EXCEPT !.db = r.db,
               !.proc[p] = [@ EXCEPT !.pc = "done", !.ctr = r.ctr, !.how = r.how,
                                     !.id = r.id]]

\* _process_item_with_return, lines 240-283: the merge or the creation decided
\* by what the lookup returned.
ConcPersist ==
  /\ \E p \in Procs :
       /\ conc.proc[p].pc = "looked"
       /\ conc' = Persisting(p, StreamPersist(conc.db, conc.proc[p].ctr,
                                              conc.proc[p].item,
                                              conc.proc[p].project_data,
                                              conc.proc[p].similar, "none"))
  /\ UNCHANGED seqvars
  /\ UNCHANGED <<pair, ext, fp>>

NextConc ==
  \/ ConcLookup
  \/ ConcPersist

SpecConc == InitConc /\ [][NextConc]_vars

\* C10: two processes handling items that name the same never-seen project
\* never both create it: at most one project row of that name exists.
C10_SingleCreate ==
  conc.pc = "on" =>
    \A p \in DOMAIN conc.db.projects, q \in DOMAIN conc.db.projects :
      conc.db.projects[p].project_name = conc.db.projects[q].project_name
        /\ conc.db.projects[p].region = conc.db.projects[q].region
        => p = q
====
